---- MODULE Spec2Model ----
(***************************************************************************)
(* Verification model of the florentine_abbot / scan_batcher repository.   *)
(*                                                                         *)
(* The repository holds three revisions of the DPI calculator:             *)
(*   ScanBatcherCalculator   src/src/scan_batcher/calculator.py            *)
(*   ClassesCalculator       src/classes/calculator.py                     *)
(*   LegacyCalculator        src/classes.py                                *)
(* Each is translated statement by statement.  Python floats are modelled  *)
(* as exact rationals [n, d] in lowest terms (d > 0); photo sides are      *)
(* drawn in hundredths of a centimetre, so x / 2.54 is x / CmToInch100.    *)
(***************************************************************************)
EXTENDS Integers, Sequences, FiniteSets, TLC

\* ------------------------------------------------------------------ bounds
MaxMenuLen == 2
\* most parts a template string is put together from
MaxParts == 3
\* most calls of the resolver on one string and its successive outputs
MaxRounds == 2
\* most items one batch run fetches
MaxItems == 2

\* --------------------------------------------------------- input domains
\* _CM_TO_INCH = 2.54, in hundredths
CmToInch100 == 254

\* Python None for an Optional[int]; a supplied value v is <<v>>
NONE == <<>>
Some(v) == <<v>>
IsNone(x) == x = NONE
Val(x) == x[1]

\* photo sides in 1/100 cm: 2.54 cm and 5.08 cm
PhotoSides == {254, 508}
\* image sides in pixels; 0 is the non-positive dimension
ImageSides == {0, 75, 200, 250, 300, 900}
\* entries a caller may put in dpi_list; 0 is the non-positive entry
MenuEntries == {-150, 0, 150, 300, 600}
\* caller supplied min_dpi / max_dpi
DpiBounds == {NONE, Some(200), Some(700)}
Roundings == {"nr", "mx", "mn"}

SeqsUpTo(S, k) == UNION {[1..m -> S] : m \in 0..k}
Menus == SeqsUpTo(MenuEntries, MaxMenuLen)

\* ------------------------------------------------------------ arithmetic
Max(a, b) == IF a >= b THEN a ELSE b
Min(a, b) == IF a <= b THEN a ELSE b
Abs(a) == IF a < 0 THEN -a ELSE a

RECURSIVE Gcd(_, _)
Gcd(a, b) == IF b = 0 THEN a ELSE Gcd(b, a % b)

\* a float value n/d, kept in lowest terms so that equal values are equal records
Rat(n, d) ==
    LET g == Gcd(Abs(n), d)
    IN  [n |-> n \div g, d |-> d \div g]
FromInt(v) == [n |-> v, d |-> 1]
RatLT(a, b) == a.n * b.d < b.n * a.d
RatLE(a, b) == a.n * b.d <= b.n * a.d
RatSub(a, b) == Rat(a.n * b.d - b.n * a.d, a.d * b.d)
RatMax(a, b) == IF RatLT(a, b) THEN b ELSE a
RatMin(a, b) == IF RatLT(b, a) THEN b ELSE a
\* (variant: int() rounding half up instead of truncating)
Trunc_RoundHalfUp(a) == (2 * a.n + a.d) \div (2 * a.d)
\* int(x): truncation toward zero
Trunc(a) == IF a.n >= 0 THEN a.n \div a.d ELSE -((-a.n) \div a.d)
\* image / (photo / 2.54), photo in 1/100 cm
DpiOf(image, photo100) == Rat(image * CmToInch100, photo100)
\* int(dpi * photo / 2.54), photo in 1/100 cm
PixelsOf(dpi, photo100) == Trunc(Rat(dpi * photo100, CmToInch100))

\* sorted(dpi_list): ascending, duplicates kept
RECURSIVE Insert(_, _)
Insert(x, s) ==
    IF s = <<>> THEN <<x>>
    ELSE IF x <= Head(s) THEN <<x>> \o s
    ELSE <<Head(s)>> \o Insert(x, Tail(s))
RECURSIVE Sorted(_)
Sorted(s) == IF s = <<>> THEN <<>> ELSE Insert(Head(s), Sorted(Tail(s)))

\* Python truthiness of an Optional[int]: None and 0 are false
Truthy(x) == ~IsNone(x) /\ Val(x) # 0

\* a raised exception, and a returned tuple
\* (discretized is the local recommended_dpi just before the min/max clamp)
Failure(e) ==
    [err |-> e, calculated |-> FromInt(0), discretized |-> FromInt(0),
     recommended |-> FromInt(0), options |-> <<>>]
Success(c, disc, r, o) ==
    [err |-> "none", calculated |-> c, discretized |-> disc, recommended |-> r, options |-> o]

\* ------------------------------------- src/src/scan_batcher/calculator.py
\* (variant: the min_dpi > max_dpi validation left out)
BatcherValidate_NoBounds(photo_min_side, image_min_side, min_dpi, max_dpi, rounding) ==
    IF photo_min_side <= 0 \/ image_min_side <= 0 THEN "dimension"
    ELSE IF rounding \notin {"nr", "mx", "mn"} THEN "rounding"
    ELSE "none"
\* lines 52-61: the three validations, in order; "none" when all pass
BatcherValidate(photo_min_side, image_min_side, min_dpi, max_dpi, rounding) ==
    IF photo_min_side <= 0 \/ image_min_side <= 0 THEN "dimension"
    ELSE IF rounding \notin {"nr", "mx", "mn"} THEN "rounding"
    ELSE IF ~IsNone(min_dpi) /\ ~IsNone(max_dpi) /\ Val(min_dpi) > Val(max_dpi) THEN "bounds"
    ELSE "none"

\* (variant: "nr" compares the distances with < instead of <=)
BatcherPick_TieLower(value, prev, rec, rounding) ==
    CASE rounding = "nr" ->
           IF RatLT(RatSub(FromInt(value), rec), RatSub(rec, FromInt(prev)))
           THEN FromInt(value) ELSE FromInt(prev)
      [] rounding = "mx" -> FromInt(value)
      [] rounding = "mn" -> FromInt(prev)
      [] OTHER -> rec
\* (variant: "mx" takes the entry below and "mn" the entry above)
BatcherPick_Swapped(value, prev, rec, rounding) ==
    CASE rounding = "nr" ->
           IF RatLE(RatSub(FromInt(value), rec), RatSub(rec, FromInt(prev)))
           THEN FromInt(value) ELSE FromInt(prev)
      [] rounding = "mx" -> FromInt(prev)
      [] rounding = "mn" -> FromInt(value)
      [] OTHER -> rec
\* lines 81-87: the match statement, reached with index > 0
BatcherPick(value, prev, rec, rounding) ==
    CASE rounding = "nr" ->
           IF RatLE(RatSub(FromInt(value), rec), RatSub(rec, FromInt(prev)))
           THEN FromInt(value) ELSE FromInt(prev)
      [] rounding = "mx" -> FromInt(value)
      [] rounding = "mn" -> FromInt(prev)
      [] OTHER -> rec

\* (variant: the else clause takes dpi_list[0])
BatcherExceeds_First(list) == FromInt(list[1])
\* lines 91-92: the else clause of the for loop
BatcherExceeds(list) == FromInt(list[Len(list)])

\* (variant: the comparison is made before the test value > 0)
RECURSIVE BatcherScan_CompareFirst(_, _, _, _)
BatcherScan_CompareFirst(list, i, rec, rounding) ==
    IF i > Len(list) THEN [err |-> "none", rec |-> BatcherExceeds(list)]
    ELSE LET value == list[i] IN
         IF RatLT(rec, FromInt(value)) THEN
             IF value > 0 THEN
                 IF i = 1 THEN [err |-> "none", rec |-> FromInt(value)]
                 ELSE [err |-> "none", rec |-> BatcherPick(value, list[i - 1], rec, rounding)]
             ELSE [err |-> "menu", rec |-> rec]
         ELSE BatcherScan_CompareFirst(list, i + 1, rec, rounding)
\* (variant: a value below the first entry is kept as calculated)
RECURSIVE BatcherScan_KeepBelowFirst(_, _, _, _)
BatcherScan_KeepBelowFirst(list, i, rec, rounding) ==
    IF i > Len(list) THEN [err |-> "none", rec |-> BatcherExceeds(list)]
    ELSE LET value == list[i] IN
         IF value > 0 THEN
             IF RatLT(rec, FromInt(value)) THEN
                 IF i = 1 THEN [err |-> "none", rec |-> rec]
                 ELSE [err |-> "none", rec |-> BatcherPick(value, list[i - 1], rec, rounding)]
             ELSE BatcherScan_KeepBelowFirst(list, i + 1, rec, rounding)
         ELSE [err |-> "menu", rec |-> rec]
\* lines 75-92: the for/else loop over the sorted list, from 1-based position i
RECURSIVE BatcherScan(_, _, _, _)
BatcherScan(list, i, rec, rounding) ==
    IF i > Len(list) THEN [err |-> "none", rec |-> BatcherExceeds(list)]
    ELSE LET value == list[i] IN
         IF value > 0 THEN
             IF RatLT(rec, FromInt(value)) THEN
                 IF i = 1 THEN [err |-> "none", rec |-> FromInt(value)]
                 ELSE [err |-> "none", rec |-> BatcherPick(value, list[i - 1], rec, rounding)]
             ELSE BatcherScan(list, i + 1, rec, rounding)
         ELSE [err |-> "menu", rec |-> rec]

\* (variant: the min_dpi clamp left out)
BatcherClamp_NoMin(rec, min_dpi, max_dpi) ==
    IF ~IsNone(max_dpi) THEN RatMin(FromInt(Val(max_dpi)), rec) ELSE rec
\* lines 100-104
BatcherClamp(rec, min_dpi, max_dpi) ==
    LET r1 == IF ~IsNone(min_dpi) THEN RatMax(FromInt(Val(min_dpi)), rec) ELSE rec
    IN  IF ~IsNone(max_dpi) THEN RatMin(FromInt(Val(max_dpi)), r1) ELSE r1

\* lines 95-98
BatcherOptions(list, photo_min_side) ==
    [k \in 1..Len(list) |-> <<list[k], PixelsOf(list[k], photo_min_side)>>]

\* lines 63-110: everything after the validations
BatcherCompute(photo_min_side, image_min_side, min_dpi, max_dpi, dpi_list, rounding) ==
    LET list == Sorted(dpi_list)
        calculated_dpi == DpiOf(image_min_side, photo_min_side)
    IN  IF list # <<>> THEN
            LET scan == BatcherScan(list, 1, calculated_dpi, rounding) IN
            IF scan.err # "none" THEN Failure(scan.err)
            ELSE Success(calculated_dpi, scan.rec,
                         FromInt(Trunc(BatcherClamp(scan.rec, min_dpi, max_dpi))),
                         BatcherOptions(list, photo_min_side))
        ELSE Success(calculated_dpi, calculated_dpi,
                     FromInt(Trunc(BatcherClamp(calculated_dpi, min_dpi, max_dpi))),
                     <<>>)

\* Calculator.__call__ as one function
ScanBatcherCalculator(photo_min_side, image_min_side, min_dpi, max_dpi, dpi_list, rounding) ==
    LET v == BatcherValidate(photo_min_side, image_min_side, min_dpi, max_dpi, rounding)
    IN  IF v # "none" THEN Failure(v)
        ELSE BatcherCompute(photo_min_side, image_min_side, min_dpi, max_dpi, dpi_list, rounding)

\* ---------------------------------------------- src/classes/calculator.py
\* dpi_list[index] for a Python index that may be negative (0-based)
PyIndex(list, index) == IF index >= 0 THEN list[index + 1] ELSE list[Len(list) + index + 1]

\* lines 34-40: the lower bound the clamp uses
ClassesMinimalDpi(minimal_dpi, list) ==
    IF Truthy(minimal_dpi) THEN
        IF Len(list) > 0
        THEN (IF list[1] > Val(minimal_dpi) THEN Some(list[1]) ELSE minimal_dpi)
        ELSE minimal_dpi
    ELSE IF Len(list) > 0 THEN Some(list[1]) ELSE NONE

\* lines 41-47: the upper bound the clamp uses
ClassesMaximalDpi(maximal_dpi, list) ==
    IF Truthy(maximal_dpi) THEN
        IF Len(list) > 0
        THEN (IF list[Len(list)] < Val(maximal_dpi) THEN Some(list[Len(list)]) ELSE maximal_dpi)
        ELSE maximal_dpi
    ELSE IF Len(list) > 0 THEN Some(list[Len(list)]) ELSE NONE

\* lines 52-64: the for loop, from 0-based index
RECURSIVE ClassesScan(_, _, _, _)
ClassesScan(list, index, rec, rnd) ==
    IF index >= Len(list) THEN rec
    ELSE LET value == list[index + 1] IN
         IF RatLT(rec, FromInt(value)) THEN
             CASE rnd = "nr" ->
                    IF index > 0 /\ RatLT(RatSub(rec, FromInt(list[index])), RatSub(FromInt(value), rec))
                    THEN FromInt(list[index]) ELSE FromInt(value)
               [] rnd = "mx" -> FromInt(value)
               [] rnd = "mn" -> FromInt(PyIndex(list, index - 1))
               [] OTHER -> rec
         ELSE ClassesScan(list, index + 1, rec, rnd)

\* lines 65-68
ClassesClamp(rec, minimal_dpi, maximal_dpi) ==
    LET r1 == IF Truthy(minimal_dpi) THEN RatMax(FromInt(Val(minimal_dpi)), rec) ELSE rec
    IN  IF Truthy(maximal_dpi) THEN RatMin(FromInt(Val(maximal_dpi)), r1) ELSE r1

\* line 72
ClassesOptions(list, photo_width, photo_height) ==
    [k \in 1..Len(list) |->
        <<list[k], PixelsOf(list[k], photo_width), PixelsOf(list[k], photo_height)>>]

\* lines 48-50
ClassesCalculatedDpi(photo_width, photo_height, image_width, image_height) ==
    LET photo_long_size == Max(photo_width, photo_height)
        photo_short_size == Min(photo_width, photo_height)
        image_long_size == Max(image_width, image_height)
        image_short_size == Min(image_width, image_height)
        calculated_width_dpi == DpiOf(image_long_size, photo_long_size)
        calculated_height_dpi == DpiOf(image_short_size, photo_short_size)
    IN  RatMax(calculated_width_dpi, calculated_height_dpi)

ClassesCalculator(photo_width, photo_height, image_width, image_height, minimal_dpi, maximal_dpi, dpi_list, rnd) ==
    LET list == Sorted(dpi_list)
        minimal == ClassesMinimalDpi(minimal_dpi, list)
        maximal == ClassesMaximalDpi(maximal_dpi, list)
        calculated_dpi == ClassesCalculatedDpi(photo_width, photo_height, image_width, image_height)
        recommended_dpi == ClassesScan(list, 0, calculated_dpi, rnd)
    IN  Success(calculated_dpi, recommended_dpi,
                ClassesClamp(recommended_dpi, minimal, maximal),
                ClassesOptions(list, photo_width, photo_height))

\* -------------------------------------------------------- src/classes.py
\* lines 181-183
LegacyCalculatedDpi(p_photo_width, p_photo_height, p_image_width, p_image_height) ==
    LET v_photo_width == Max(p_photo_width, p_photo_height)
        v_photo_height == Min(p_photo_width, p_photo_height)
        v_image_width == Max(p_image_width, p_image_height)
        v_image_height == Min(p_image_width, p_image_height)
        v_calculated_width_dpi == DpiOf(v_image_width, v_photo_width)
        v_calculated_height_dpi == DpiOf(v_image_height, v_photo_height)
    IN  RatMin(v_calculated_width_dpi, v_calculated_height_dpi)

\* lines 185-191: nearest entry only, this revision has no rounding mode
RECURSIVE LegacyScan(_, _, _)
LegacyScan(list, v_index, rec) ==
    IF v_index >= Len(list) THEN rec
    ELSE LET v_value == list[v_index + 1] IN
         IF RatLT(rec, FromInt(v_value)) THEN
             IF v_index > 0 /\ RatLT(RatSub(rec, FromInt(list[v_index])), RatSub(FromInt(v_value), rec))
             THEN FromInt(list[v_index]) ELSE FromInt(v_value)
         ELSE LegacyScan(list, v_index + 1, rec)

LegacyCalculator(p_photo_width, p_photo_height, p_image_width, p_image_height, p_minimal_resolution, p_maximal_resolution, p_resolution_list) ==
    LET v_resolution_list == Sorted(p_resolution_list)
        v_minimal_resolution == ClassesMinimalDpi(p_minimal_resolution, v_resolution_list)
        v_maximal_resolution == ClassesMaximalDpi(p_maximal_resolution, v_resolution_list)
        v_calculated_dpi == LegacyCalculatedDpi(p_photo_width, p_photo_height,
                                                p_image_width, p_image_height)
        v_recommended_dpi == LegacyScan(v_resolution_list, 0, v_calculated_dpi)
    IN  Success(v_calculated_dpi, v_recommended_dpi,
                ClassesClamp(v_recommended_dpi, v_minimal_resolution, v_maximal_resolution),
                <<>>)

\* ------------------- src/src/scan_batcher/workflows/vuescan/workflow.py
\* Text is a sequence of one-character strings; a template context maps a
\* key (text) to the str() of its value (text).
AlignChars == {"<", ">", "^"}
DigitChars == <<"0", "1", "2", "3", "4", "5", "6", "7", "8", "9">>
IsDigit(c) == \E d \in 1..10 : DigitChars[d] = c
DigitValue(c) == (CHOOSE d \in 1..10 : DigitChars[d] = c) - 1
Repeat(c, n) == [k \in 1..n |-> c]

\* str.split(sep) for a one-character separator
RECURSIVE Split(_, _)
Split(s, sep) ==
    IF \A k \in 1..Len(s) : s[k] # sep THEN <<s>>
    ELSE LET k == CHOOSE i \in 1..Len(s) : s[i] = sep /\ \A j \in 1..(i - 1) : s[j] # sep
         IN  <<SubSeq(s, 1, k - 1)>> \o Split(SubSeq(s, k + 1, Len(s)), sep)

\* int(text): blanks around the literal are dropped, one sign may lead, and
\* single underscores may stand between digits; anything else is a ValueError
RECURSIVE StripLeft(_)
StripLeft(s) == IF s # <<>> /\ Head(s) = " " THEN StripLeft(Tail(s)) ELSE s
RECURSIVE StripRight(_)
StripRight(s) == IF s # <<>> /\ s[Len(s)] = " " THEN StripRight(SubSeq(s, 1, Len(s) - 1)) ELSE s
RECURSIVE DigitsValue(_)
DigitsValue(ds) ==
    IF ds = <<>> THEN 0
    ELSE DigitsValue(SubSeq(ds, 1, Len(ds) - 1)) * 10 + DigitValue(ds[Len(ds)])
PyInt(text) ==
    LET t == StripRight(StripLeft(text))
        signed == t # <<>> /\ Head(t) \in {"+", "-"}
        body == IF signed THEN Tail(t) ELSE t
        wellformed ==
            /\ body # <<>>
            /\ \A k \in 1..Len(body) :
                  \/ IsDigit(body[k])
                  \/ /\ body[k] = "_" /\ 1 < k /\ k < Len(body)
                     /\ IsDigit(body[k - 1]) /\ IsDigit(body[k + 1])
        magnitude == DigitsValue(SelectSeq(body, IsDigit))
    IN  IF ~wellformed THEN [ok |-> FALSE, val |-> 0]
        ELSE [ok |-> TRUE, val |-> IF signed /\ Head(t) = "-" THEN 0 - magnitude ELSE magnitude]

\* (variant: the value is cut to the width)
PyFormat_Truncate(value, fill, align, length) ==
    IF Len(fill) > 1 \/ fill \in {<<"{">>, <<"}">>} \/ length < 0
    THEN [ok |-> FALSE, text |-> <<>>]
    ELSE LET pad == IF fill = <<>> THEN " " ELSE fill[1]
             cut == IF length > 0 /\ Len(value) > length THEN SubSeq(value, 1, length) ELSE value
             total == Max(length - Len(cut), 0)
             left == IF align = ">" THEN total ELSE IF align = "^" THEN total \div 2 ELSE 0
         IN  [ok |-> TRUE, text |-> Repeat(pad, left) \o cut \o Repeat(pad, total - left)]
\* lines 173-174: "{:" + fill + align + str(length) + "s}" applied to the text
\* of the value. A fill of two or more characters, a brace as fill, or the
\* sign of a negative length is a ValueError of str.format
PyFormat(value, fill, align, length) ==
    IF Len(fill) > 1 \/ fill \in {<<"{">>, <<"}">>} \/ length < 0
    THEN [ok |-> FALSE, text |-> <<>>]
    ELSE LET pad == IF fill = <<>> THEN " " ELSE fill[1]
             total == Max(length - Len(value), 0)
             left == IF align = ">" THEN total ELSE IF align = "^" THEN total \div 2 ELSE 0
         IN  [ok |-> TRUE, text |-> Repeat(pad, left) \o value \o Repeat(pad, total - left)]

\* what _convert_value returns (err = "none") or raises
Converted(text) == [err |-> "none", text |-> text]
ConversionError(e) == [err |-> e, text |-> <<>>]

\* line 171
Alignment(fields) ==
    IF Len(fields) > 2 /\ Len(fields[3]) = 1 /\ fields[3][1] \in AlignChars THEN fields[3][1] ELSE "<"

\* _convert_value, lines 149-179
ConvertValue(value, templates) ==
    LET fields == Split(value, ":")
        key == fields[1]
    IN  IF key \notin DOMAIN templates THEN ConversionError("key")
        ELSE LET length == IF Len(fields) > 1 THEN PyInt(fields[2]) ELSE [ok |-> TRUE, val |-> 0]
                 placeholder == IF Len(fields) > 3 THEN fields[4] ELSE <<>>
             IN  IF ~length.ok THEN ConversionError("conversion")
                 ELSE LET formatted == PyFormat(templates[key], placeholder, Alignment(fields), length.val)
                      IN  IF formatted.ok THEN Converted(formatted.text)
                          ELSE ConversionError("conversion")

\* re: end of the match of {(.+?)} that starts at position i, 0 when there is
\* none. The group takes at least one character, any but a line feed, and
\* stops at the first closing brace after it
MatchEnd(s, i) ==
    IF s[i] # "{" THEN 0
    ELSE LET ends == {j \in (i + 2)..Len(s) : s[j] = "}" /\ \A k \in (i + 1)..(j - 1) : s[k] # "\n"}
         IN  IF ends = {} THEN 0 ELSE CHOOSE j \in ends : \A e \in ends : j <= e

\* finditer("{(.+?)}", s): the matches from position pos on, left to right
RECURSIVE FindIter(_, _)
FindIter(s, pos) ==
    IF pos > Len(s) THEN <<>>
    ELSE LET e == MatchEnd(s, pos)
         IN  IF e = 0 THEN FindIter(s, pos + 1)
             ELSE <<[start |-> pos, end |-> e]>> \o FindIter(s, e + 1)

\* str.replace(old, new): every occurrence of old, left to right
RECURSIVE PyReplace(_, _, _)
PyReplace(s, old, new) ==
    IF s = <<>> THEN <<>>
    ELSE IF Len(old) <= Len(s) /\ SubSeq(s, 1, Len(old)) = old
         THEN new \o PyReplace(SubSeq(s, Len(old) + 1, Len(s)), old, new)
         ELSE <<Head(s)>> \o PyReplace(Tail(s), old, new)

\* line 197: what the diagnostic quotes, string[1:-1]
Quoted(string) == SubSeq(string, 2, Len(string) - 1)

\* lines 192-199: the loop over the matches found in the string as passed
RECURSIVE ReplaceLoop(_, _, _, _, _)
ReplaceLoop(string, templates, matches, result, logged) ==
    IF matches = <<>> THEN [text |-> result, log |-> logged]
    ELSE LET template == SubSeq(string, Head(matches).start, Head(matches).end)
             value == ConvertValue(SubSeq(template, 2, Len(template) - 1), templates)
         IN  IF value.err # "none"
             THEN ReplaceLoop(string, templates, Tail(matches), result,
                              Append(logged, Quoted(string)))
             ELSE ReplaceLoop(string, templates, Tail(matches),
                              PyReplace(result, template, value.text), logged)

\* (variant: the result starts from string[1:-1])
ReplaceTemplatesToValue_Quoted(string, templates) ==
    ReplaceLoop(string, templates, FindIter(string, 1), Quoted(string), <<>>)
\* _replace_templates_to_value, lines 181-200
ReplaceTemplatesToValue(string, templates) ==
    ReplaceLoop(string, templates, FindIter(string, 1), string, <<>>)

\* ------------------------------------------------ src/classes/workflow.py
\* _convert_value, lines 127-156, is the function of lines 149-179 above.
\* s[start:end] for the 1-based positions start..end: a slice stops at the
\* end of the string and is empty beyond it
PySlice(s, start, end) ==
    IF start > Len(s) THEN <<>> ELSE SubSeq(s, start, Min(end, Len(s)))

\* lines 168-175: the loop over the matches found in the string as passed;
\* line 169 assigns the slice to template, the name the next slice is taken of
RECURSIVE ClassesConvertLoop(_, _, _, _, _)
ClassesConvertLoop(template, templates, matches, result, logged) ==
    IF matches = <<>> THEN [text |-> result, log |-> logged]
    ELSE LET span == PySlice(template, Head(matches).start, Head(matches).end)
             value == ConvertValue(Quoted(span), templates)
         IN  IF value.err # "none"
             THEN ClassesConvertLoop(span, templates, Tail(matches), result,
                                     Append(logged, Quoted(span)))
             ELSE ClassesConvertLoop(span, templates, Tail(matches),
                                     PyReplace(result, span, value.text), logged)

\* _convert_template_to_value, lines 158-176
ClassesConvertTemplateToValue(template, templates) ==
    ClassesConvertLoop(template, templates, FindIter(template, 1), template, <<>>)

\* ------------------------------------------------ state of one calculation
\* the request, the revision that serves it (impl), the position of the call
\* (pc) and what it returned or raised (result)
VARIABLES photo_w, photo_h, image_w, image_h, min_dpi, max_dpi, dpi_menu, rounding,
          impl, pc, result

\* ------------------------------------------- state of one template string
\* the string passed to _replace_templates_to_value, the context _templates,
\* what the call returned and logged, its position, and the number of the call
VARIABLES tpl_string, templates, tpl_result, tpl_log, tpl_pc, tpl_round

\* ------------------------------------------------- state of one batch run
\* cli.py main: the batch class, the templates of the command line, the
\* position of main, the number of items fetched, the item in hand;
\* the workflow object: its context _templates, whether the scanner process
\* runs, the capture date read from the scanned file, the last resolved
\* scanner-side value and final file name; and what
\* the run left behind: the events in order, the errors printed, whether the
\* operator interrupted, the exception that left main, the exit code
VARIABLES batch, batch_arg, args_templates, main_pc, item_no, item, wf_templates, scanning,
          moment, vuescan_value, output_file_name, events, errors, interrupted, uncaught,
          exit_code

\* ------------------------------------- state of the scanner settings file
\* the per-job file as _workflow_parser holds it after _read_settings, the
\* settings file on disk (NONE while there is none), and the position of
\* _overwrite_vuescan_settings_file
VARIABLES workflow_parser, settings_file, set_pc

runvars == <<batch, batch_arg, args_templates, main_pc, item_no, item, wf_templates, scanning,
             moment, vuescan_value, output_file_name, events, errors, interrupted, uncaught,
             exit_code>>
calcvars == <<photo_w, photo_h, image_w, image_h, min_dpi, max_dpi, dpi_menu, rounding,
              impl, pc, result>>
tplvars == <<tpl_string, templates, tpl_result, tpl_log, tpl_pc, tpl_round>>
setvars == <<workflow_parser, settings_file, set_pc>>
vars == <<calcvars, tplvars, runvars, setvars>>
request == <<photo_w, photo_h, image_w, image_h, min_dpi, max_dpi, dpi_menu, rounding>>

\* no template string is being resolved
TplIdle ==
    /\ tpl_string = <<>> /\ templates = <<>>
    /\ tpl_result = <<>> /\ tpl_log = <<>>
    /\ tpl_pc = "idle" /\ tpl_round = 0

\* no settings file is being written
SetIdle == workflow_parser = <<>> /\ settings_file = NONE /\ set_pc = "idle"

\* no batch is running
RunIdle ==
    /\ batch = "none" /\ batch_arg = <<>> /\ args_templates = <<>>
    /\ main_pc = "idle" /\ item_no = 0 /\ item = <<>>
    /\ wf_templates = <<>> /\ scanning = FALSE
    /\ moment = NONE /\ vuescan_value = NONE /\ output_file_name = NONE
    /\ events = <<>> /\ errors = 0 /\ interrupted = FALSE
    /\ uncaught = "none" /\ exit_code = NONE

Init ==
    /\ photo_w \in PhotoSides /\ photo_h \in PhotoSides
    /\ image_w \in ImageSides /\ image_h \in ImageSides
    /\ min_dpi \in DpiBounds /\ max_dpi \in DpiBounds
    /\ dpi_menu \in Menus
    /\ rounding \in Roundings
    /\ impl = "none"
    /\ pc = "idle"
    /\ result = Failure("pending")
    /\ TplIdle
    /\ RunIdle
    /\ SetIdle

\* the sides the operator enters at the prompts of Calculate._get_user_input
PhotoMinSide == Min(photo_w, photo_h)
ImageMinSide == Min(image_w, image_h)

\* scan_batcher Calculator.__call__, lines 52-61: validate the request
ScanBatcherValidate ==
    /\ impl = "none"
    /\ impl' = "scan_batcher"
    /\ LET v == BatcherValidate(PhotoMinSide, ImageMinSide, min_dpi, max_dpi, rounding)
       IN  IF v # "none"
           THEN pc' = "raised" /\ result' = Failure(v)
           ELSE pc' = "validated" /\ UNCHANGED result
    /\ UNCHANGED <<request, tplvars, runvars, setvars>>

\* scan_batcher Calculator.__call__, lines 63-110: sort, calculate, discretize, clamp
ScanBatcherCompute ==
    /\ impl = "scan_batcher" /\ pc = "validated"
    /\ result' = BatcherCompute(PhotoMinSide, ImageMinSide, min_dpi, max_dpi, dpi_menu, rounding)
    /\ pc' = IF result'.err = "none" THEN "returned" ELSE "raised"
    /\ UNCHANGED <<request, impl, tplvars, runvars, setvars>>

\* src/classes/calculator.py: the four sides are passed as entered
CallClassesCalculator ==
    /\ impl = "none"
    /\ impl' = "classes_calculator"
    /\ result' = ClassesCalculator(photo_w, photo_h, image_w, image_h,
                                   min_dpi, max_dpi, dpi_menu, rounding)
    /\ pc' = "returned"
    /\ UNCHANGED <<request, tplvars, runvars, setvars>>

\* src/classes.py: no rounding argument
CallLegacy ==
    /\ impl = "none"
    /\ impl' = "classes"
    /\ result' = LegacyCalculator(photo_w, photo_h, image_w, image_h,
                                  min_dpi, max_dpi, dpi_menu)
    /\ pc' = "returned"
    /\ UNCHANGED <<request, tplvars, runvars, setvars>>

Next ==
    \/ ScanBatcherValidate
    \/ ScanBatcherCompute
    \/ CallClassesCalculator
    \/ CallLegacy

Spec == Init /\ [][Next]_vars

\* ------------------------------------------- resolving a template string
\* the parts template strings are put together from: placeholders with a
\* known key (a, b) and an unknown one (m), with and without width, alignment
\* and pad character, with widths int() rejects, with a pad str.format
\* rejects, plain text, lone braces and placeholders left open
Parts == {
    <<"{", "a", "}">>, <<"{", "b", "}">>, <<"{", "m", "}">>,
    <<"{", "a", ":", "3", "}">>,
    <<"{", "a", ":", "4", ":", "^", "}">>,
    <<"{", "a", ":", "5", ":", ">", ":", "_", "}">>,
    <<"{", "a", ":", "5", ":", "^", ":", "_", "}">>,
    <<"{", "a", ":", "5", ":", "x", ":", "_", "}">>,
    <<"{", "a", ":", "}">>,
    <<"{", "a", ":", "x", "}">>,
    <<"{", "a", ":", "-", "3", "}">>,
    <<"{", "a", ":", "3", ":", ">", ":", "_", "_", "}">>,
    <<"s">>, <<"{">>, <<"}">>, <<"{", "a">>, <<"{", "a", ":">> }

RECURSIVE Concat(_)
Concat(parts) == IF parts = <<>> THEN <<>> ELSE Head(parts) \o Concat(Tail(parts))
Texts == {Concat(parts) : parts \in SeqsUpTo(Parts, MaxParts)}

\* contexts: plain values, a value that is itself a placeholder, and a value
\* longer than every width of Parts
Key(c) == <<c>>
Contexts == {
    (Key("a") :> <<"h", "i">>) @@ (Key("b") :> <<"X">>),
    (Key("a") :> <<"{", "b", "}">>) @@ (Key("b") :> <<"X">>),
    (Key("a") :> <<"h", "e", "l", "l", "o", "!">>) @@ (Key("b") :> <<"{", "a", "}">>) }

\* no calculation is under way
CalcIdle ==
    /\ photo_w = 254 /\ photo_h = 254 /\ image_w = 300 /\ image_h = 300
    /\ min_dpi = NONE /\ max_dpi = NONE /\ dpi_menu = <<>> /\ rounding = "nr"
    /\ impl = "none" /\ pc = "idle" /\ result = Failure("pending")

InitResolve ==
    /\ CalcIdle
    /\ RunIdle
    /\ SetIdle
    /\ tpl_string \in Texts
    /\ templates \in Contexts
    /\ tpl_result = <<>> /\ tpl_log = <<>>
    /\ tpl_pc = "ready" /\ tpl_round = 1

\* one call of _replace_templates_to_value
Resolve ==
    /\ tpl_pc = "ready"
    /\ LET r == ReplaceTemplatesToValue(tpl_string, templates)
       IN  tpl_result' = r.text /\ tpl_log' = r.log
    /\ tpl_pc' = "done"
    /\ UNCHANGED <<calcvars, runvars, setvars, tpl_string, templates, tpl_round>>

\* the returned string is passed to _replace_templates_to_value again
ResolveAgain ==
    /\ tpl_pc = "done" /\ tpl_round < MaxRounds
    /\ tpl_string' = tpl_result
    /\ tpl_result' = <<>> /\ tpl_log' = <<>>
    /\ tpl_pc' = "ready" /\ tpl_round' = tpl_round + 1
    /\ UNCHANGED <<calcvars, runvars, setvars, templates>>

\* one call of _convert_template_to_value of src/classes/workflow.py
ClassesConvert ==
    /\ tpl_pc = "ready"
    /\ LET r == ClassesConvertTemplateToValue(tpl_string, templates)
       IN  tpl_result' = r.text /\ tpl_log' = r.log
    /\ tpl_pc' = "converted"
    /\ UNCHANGED <<calcvars, runvars, setvars, tpl_string, templates, tpl_round>>

NextResolve ==
    \/ Resolve
    \/ ResolveAgain
    \/ ClassesConvert

SpecResolve == InitResolve /\ [][NextResolve]_vars

\* ------------------------------------------------------------ a batch run
\* src/src/scan_batcher/cli.py main, batch.py Calculate and Scan, and the
\* steps of VuescanWorkflow.__call__. What the operator types, what the file
\* system holds and when the operator interrupts are choices of the
\* environment.

\* str(n) of an integer n >= 0
RECURSIVE PyStr(_)
PyStr(n) == IF n < 10 THEN <<DigitChars[n + 1]>> ELSE PyStr(n \div 10) \o <<DigitChars[(n % 10) + 1]>>

\* exit status: exit(0) of the interrupt handler, the end of main, an
\* exception that no handler of main catches, and a KeyboardInterrupt that
\* none catches (the interpreter ends on SIGINT)
ExitOnInterrupt == 0
ExitAtEnd == 0
ExitUncaught == 1
ExitUncaughtInterrupt == 130

\* what the operator may enter at the two prompts of _get_user_input
PromptSides == {0, 254}
PromptPixels == {0, 300}
\* the menu the batch was created with
BatchMenu == <<300, 600>>
\* the templates of the command line: none, a caller's own capture year, or
\* a caller's own scan_dpi and user_name
ArgsTemplates == {
    <<>>,
    Key("digitization_year") :> <<"1", "9", "9", "9">>,
    (Key("scan_dpi") :> <<"7">>) @@ (Key("user_name") :> <<"x">>) }
\* getuser()
UserName == <<"u">>

\* _EXIF_TEMPLATE_NAMES and the fields of the capture date of a dated file
ExifTemplateNames == {"digitization_year", "digitization_month", "digitization_day", "digitization_hour", "digitization_minute", "digitization_second"}
Moment == [digitization_year |-> 2024, digitization_month |-> 5, digitization_day |-> 6, digitization_hour |-> 7, digitization_minute |-> 8, digitization_second |-> 9]

\* (variant: the method returns before it sets the fields)
AddOutputFileTemplates_Return(context, dated) == context
\* _add_output_file_templates, lines 202-222: with a capture date (dated)
\* the six fields are set, over what the context held; without one nothing is
AddOutputFileTemplates(context, dated) ==
    IF dated
    THEN [k \in {Key(name) : name \in ExifTemplateNames} |-> PyStr(Moment[k[1]])] @@ context
    ELSE context

\* a value of a [vuescan.*] section of the workflow file, and
\* [main] output_file_name
VuescanSectionValue == <<"{", "user_name", "}", "_", "{", "digitization_year", "}">>
MainOutputFileName == <<"{", "digitization_year", "}", "_", "{", "scan_dpi", "}">>

\* (variant: the scanned file is moved before the scanner is launched)
WorkflowSteps_MoveFirst ==
    <<"read_settings", "overwrite_vuescan_settings_file", "move_output_file",
      "run_vuescan", "move_logging_file">>
\* __call__, lines 313-317
WorkflowSteps ==
    <<"read_settings", "overwrite_vuescan_settings_file", "run_vuescan",
      "move_output_file", "move_logging_file">>
StepNames == {WorkflowSteps[k] : k \in 1..Len(WorkflowSteps)}
\* where main stands after a step: at the next step, or back at the for
\* statement after the last one
After(step) ==
    LET k == CHOOSE i \in 1..Len(WorkflowSteps) : WorkflowSteps[i] = step
    IN  IF k = Len(WorkflowSteps) THEN "next" ELSE WorkflowSteps[k + 1]

\* batch.py lines 179-213: the table is the menu options with int(calc_dpi)
\* and rec_dpi added, sorted; index 0 takes rec_dpi, index i the i-th row
SelectedDpi(r, index) ==
    LET table == {r.options[k][1] : k \in 1..Len(r.options)}
                     \cup {Trunc(r.calculated), Trunc(r.recommended)}
        below(d) == Cardinality({e \in table : e < d})
    IN  IF index = 0 THEN Trunc(r.recommended)
        ELSE CHOOSE d \in table : below(d) = index - 1

\* str.lower on the letters of the alphabet
UpperCase == <<"A", "B", "C", "D", "E", "F", "G", "H", "I", "J", "K", "L", "M",
               "N", "O", "P", "Q", "R", "S", "T", "U", "V", "W", "X", "Y", "Z">>
LowerCase == <<"a", "b", "c", "d", "e", "f", "g", "h", "i", "j", "k", "l", "m",
               "n", "o", "p", "q", "r", "s", "t", "u", "v", "w", "x", "y", "z">>
LowerChar(c) ==
    IF \E i \in 1..Len(UpperCase) : UpperCase[i] = c
    THEN LowerCase[CHOOSE i \in 1..Len(UpperCase) : UpperCase[i] = c]
    ELSE c
Lower(s) == [i \in 1..Len(s) |-> LowerChar(s[i])]

\* cli.py lines 11-25, get_subclasses(Batch): the classes of batch.py in the
\* order found (Calculate, its subclass Scan, Process), and their __name__
Subclasses == <<"calculate", "scan", "process">>
ClassName ==
    ("calculate" :> <<"C", "a", "l", "c", "u", "l", "a", "t", "e">>)
        @@ ("scan" :> <<"S", "c", "a", "n">>)
        @@ ("process" :> <<"P", "r", "o", "c", "e", "s", "s">>)
\* the positional arguments __init__ takes beside self: batch.py lines 39-46
\* (Scan inherits it) and line 265
MinPositional == ("calculate" :> 0) @@ ("scan" :> 0) @@ ("process" :> 1)
MaxPositional == ("calculate" :> 5) @@ ("scan" :> 5) @@ ("process" :> 2)
\* cli.py lines 47 and 54: recorder, min_res, max_res, res_list, rounding
FixedArguments == 5

\* cls(recorder, min_res, max_res, res_list, rounding, *batch[1:]): the
\* instance, or the TypeError of a call with too many arguments
Construct(cls, extra) ==
    IF /\ FixedArguments + Len(extra) >= MinPositional[cls]
       /\ FixedArguments + Len(extra) <= MaxPositional[cls]
    THEN [err |-> "none", cls |-> cls]
    ELSE [err |-> "TypeError", cls |-> "none"]
\* cli.py lines 52-56: the first subclass from position k on whose name is kind
RECURSIVE FindClass(_, _, _)
FindClass(kind, extra, k) ==
    IF k > Len(Subclasses) THEN [err |-> "ValueError", cls |-> "none"]
    ELSE IF Lower(ClassName[Subclasses[k]]) = kind THEN Construct(Subclasses[k], extra)
    ELSE FindClass(kind, extra, k + 1)
\* create_batch, cli.py lines 27-56
CreateBatchOf(batch_list) ==
    IF batch_list = <<>> \/ batch_list[1] = <<>>
    THEN Construct("scan", IF batch_list = <<>> THEN <<>> ELSE Tail(batch_list))
    ELSE FindClass(Lower(batch_list[1]), Tail(batch_list), 1)

\* the values of args.batch of the model
BatchArgs == {
    <<>>,
    << <<"s", "C", "a", "N">> >>,
    << <<"c", "a", "l", "c", "u", "l", "a", "t", "e">> >>,
    << <<"P", "r", "o", "c", "e", "s", "s">>, <<"d", "i", "r">> >>,
    << <<"s", "c", "a", "n">>, <<"x">> >>,
    << <<"b", "a", "t", "c", "h">> >> }

InitBatch ==
    /\ photo_w = 0 /\ photo_h = 0 /\ image_w = 0 /\ image_h = 0
    /\ min_dpi \in DpiBounds /\ max_dpi \in DpiBounds
    /\ dpi_menu = BatchMenu /\ rounding = "nr"
    /\ impl = "none" /\ pc = "idle" /\ result = Failure("pending")
    /\ TplIdle
    /\ SetIdle
    /\ batch = "none" /\ batch_arg \in BatchArgs
    /\ args_templates \in ArgsTemplates
    /\ main_pc = "create" /\ item_no = 0 /\ item = <<>>
    /\ wf_templates = <<>> /\ scanning = FALSE
    /\ moment = NONE /\ vuescan_value = NONE /\ output_file_name = NONE
    /\ events = <<>> /\ errors = 0 /\ interrupted = FALSE
    /\ uncaught = "none" /\ exit_code = NONE

\* cli.py line 85: create_batch returns the batch, or raises, which ends main
\* with a traceback
CreateBatch ==
    /\ main_pc = "create"
    /\ LET created == CreateBatchOf(batch_arg) IN
          IF created.err = "none"
          THEN /\ batch' = created.cls
               /\ main_pc' = "next"
               /\ UNCHANGED <<uncaught, exit_code>>
          ELSE /\ main_pc' = "aborted"
               /\ uncaught' = created.err
               /\ exit_code' = Some(ExitUncaught)
               /\ UNCHANGED batch
    /\ UNCHANGED <<calcvars, tplvars, setvars, batch_arg, args_templates, item_no, item,
                   wf_templates, scanning, moment, vuescan_value, output_file_name, events,
                   errors, interrupted>>

\* (variant: no batch raises StopIteration)
StopsAfterNext_Never(cls) == FALSE
\* batch.py lines 239-240 and 255: Calculate.__next__ raises StopIteration
\* after _next, Scan.__next__ returns what _next returned
StopsAfterNext(cls) == cls = "calculate"

\* cli.py line 88, `for item in batch`: batch.__next__ runs _next (batch.py
\* lines 157-221): the prompts, the calculator, the table, the selection.
\* The statement is outside the try of lines 89-104: a ValueError of the
\* calculator leaves main. Calculate.__next__ raises StopIteration after
\* _next (line 240), which ends the loop; Scan.__next__ returns the item
FetchItem ==
    /\ main_pc = "next" /\ item_no < MaxItems
    /\ \E photo \in PromptSides, image \in PromptPixels, index \in {0, 1} :
          /\ photo_w' = photo /\ photo_h' = photo
          /\ image_w' = image /\ image_h' = image
          /\ impl' = "scan_batcher"
          /\ result' = ScanBatcherCalculator(photo, image, min_dpi, max_dpi, dpi_menu, rounding)
          /\ IF result'.err # "none"
             THEN /\ pc' = "raised"
                  /\ main_pc' = "aborted" /\ uncaught' = "ValueError"
                  /\ exit_code' = Some(ExitUncaught)
                  /\ UNCHANGED <<item, item_no>>
             ELSE /\ pc' = "returned"
                  /\ IF StopsAfterNext(batch)
                     THEN /\ main_pc' = "finished" /\ exit_code' = Some(ExitAtEnd)
                          /\ UNCHANGED <<item, item_no>>
                     ELSE /\ main_pc' = "body"
                          /\ item' = Key("scan_dpi") :> PyStr(SelectedDpi(result', index))
                          /\ item_no' = item_no + 1
                          /\ UNCHANGED exit_code
                  /\ UNCHANGED uncaught
    /\ UNCHANGED <<min_dpi, max_dpi, dpi_menu, rounding, tplvars, setvars, batch, batch_arg,
                   args_templates, moment, wf_templates, scanning, vuescan_value, output_file_name, events,
                   errors, interrupted>>

\* the operator interrupts while batch.__next__ waits at a prompt (input(),
\* batch.py lines 91 and 111): no handler is in reach, the KeyboardInterrupt
\* leaves main
InterruptAtPrompt ==
    /\ main_pc = "next"
    /\ interrupted' = TRUE /\ uncaught' = "KeyboardInterrupt"
    /\ main_pc' = "aborted" /\ exit_code' = Some(ExitUncaughtInterrupt)
    /\ UNCHANGED <<calcvars, tplvars, setvars, batch, batch_arg, args_templates, moment, item_no, item, wf_templates,
                   scanning, vuescan_value, output_file_name, events, errors>>

\* (variant: a template of the command line wins over the item)
MergedTemplates_ArgsWin(templates_dict, batch_dict) == templates_dict @@ batch_dict
\* cli.py lines 93-96: {**templates_dict, **batch_dict}, a new dict in which
\* the item wins
MergedTemplates(templates_dict, batch_dict) == batch_dict @@ templates_dict
\* (variant: a user_name of the caller is kept)
InitialTemplates_KeepCaller(passed) == passed @@ (Key("user_name") :> UserName)
\* workflow.py lines 308-309 and 63: the dict passed becomes the context and
\* user_name is set in it
InitialTemplates(passed) == (Key("user_name") :> UserName) @@ passed

\* cli.py lines 89-97 and workflow.py lines 308-312: the templates of the
\* command line and the item are merged into a new dict, the item winning,
\* and the workflow sets user_name in it
StartWorkflow ==
    /\ main_pc = "body"
    /\ wf_templates' = InitialTemplates(MergedTemplates(args_templates, item))
    /\ moment' = NONE /\ vuescan_value' = NONE /\ output_file_name' = NONE
    /\ main_pc' = WorkflowSteps[1]
    /\ events' = Append(events, <<item_no, "start">>)
    /\ UNCHANGED <<calcvars, tplvars, setvars, batch, batch_arg, args_templates, item_no, item, scanning,
                   errors, interrupted, uncaught, exit_code>>

\* (variant: the exception is printed and the workflow goes on with its
\* next step)
Reported_GoesOn ==
    /\ main_pc' = After(main_pc)
    /\ errors' = errors + 1
    /\ events' = Append(events, <<item_no, "failed">>)
\* cli.py lines 102-104: an Exception of the workflow is printed to stderr
\* and the loop continues
Reported ==
    /\ main_pc' = "next"
    /\ errors' = errors + 1
    /\ events' = Append(events, <<item_no, "failed">>)
\* a step returned
Done(step) ==
    /\ main_pc' = After(step)
    /\ events' = Append(events, <<item_no, step>>)
    /\ UNCHANGED errors

\* _read_settings, lines 65-71: a settings file may be missing
ReadSettings ==
    /\ main_pc = "read_settings"
    /\ \E ok \in BOOLEAN : IF ok THEN Done("read_settings") ELSE Reported
    /\ UNCHANGED <<calcvars, tplvars, setvars, batch, batch_arg, args_templates, moment, item_no, item, wf_templates,
                   scanning, vuescan_value, output_file_name, interrupted, uncaught, exit_code>>

\* _overwrite_vuescan_settings_file, lines 101-124: the values of the
\* vuescan.* sections are resolved, then the file is written, which may fail
OverwriteVuescanSettingsFile ==
    /\ main_pc = "overwrite_vuescan_settings_file"
    /\ vuescan_value' = Some(ReplaceTemplatesToValue(VuescanSectionValue, wf_templates).text)
    /\ \E ok \in BOOLEAN : IF ok THEN Done("overwrite_vuescan_settings_file") ELSE Reported
    /\ UNCHANGED <<calcvars, tplvars, setvars, batch, batch_arg, args_templates, moment, item_no, item, wf_templates,
                   scanning, output_file_name, interrupted, uncaught, exit_code>>

\* _run_vuescan, lines 133-144: the program may be missing; else run() starts it
LaunchVuescan ==
    /\ main_pc = "run_vuescan" /\ ~scanning
    /\ \E exists \in BOOLEAN :
          IF exists
          THEN /\ scanning' = TRUE
               /\ events' = Append(events, <<item_no, "vuescan_launched">>)
               /\ UNCHANGED <<main_pc, errors>>
          ELSE Reported /\ UNCHANGED scanning
    /\ UNCHANGED <<calcvars, tplvars, setvars, batch, batch_arg, args_templates, moment, item_no, item, wf_templates,
                   vuescan_value, output_file_name, interrupted, uncaught, exit_code>>

\* _run_vuescan, lines 141-145: run() returns when the program has exited
VuescanExits ==
    /\ main_pc = "run_vuescan" /\ scanning
    /\ scanning' = FALSE
    /\ Done("run_vuescan")
    /\ UNCHANGED <<calcvars, tplvars, setvars, batch, batch_arg, args_templates, moment, item_no, item, wf_templates,
                   vuescan_value, output_file_name, interrupted, uncaught, exit_code>>

\* _move_output_file, lines 241-272: the scanner-side name of the file is
\* resolved; if the file is there the capture-date fields are added, the
\* final name is resolved and the file is moved, which may fail
MoveOutputFile ==
    /\ main_pc = "move_output_file"
    /\ vuescan_value' = Some(ReplaceTemplatesToValue(VuescanSectionValue, wf_templates).text)
    /\ \E found \in BOOLEAN, dated \in BOOLEAN, moved \in BOOLEAN :
          IF ~found
          THEN Reported /\ UNCHANGED <<wf_templates, moment, output_file_name>>
          ELSE /\ moment' = IF dated THEN Some(Moment) ELSE NONE
               /\ wf_templates' = AddOutputFileTemplates(wf_templates, dated)
               /\ output_file_name' = Some(ReplaceTemplatesToValue(MainOutputFileName, wf_templates').text)
               /\ IF moved THEN Done("move_output_file") ELSE Reported
    /\ UNCHANGED <<calcvars, tplvars, setvars, batch, batch_arg, args_templates, item_no, item, scanning,
                   interrupted, uncaught, exit_code>>

\* _move_logging_file, lines 274-297: a missing log is only logged; a log
\* that is there is moved under the final name, which may fail
MoveLoggingFile ==
    /\ main_pc = "move_logging_file"
    /\ \E found \in BOOLEAN, moved \in BOOLEAN :
          /\ IF found
             THEN output_file_name' = Some(ReplaceTemplatesToValue(MainOutputFileName, wf_templates).text)
             ELSE UNCHANGED output_file_name
          /\ IF found /\ ~moved THEN Reported ELSE Done("move_logging_file")
    /\ UNCHANGED <<calcvars, tplvars, setvars, batch, batch_arg, args_templates, moment, item_no, item, wf_templates,
                   scanning, vuescan_value, interrupted, uncaught, exit_code>>

\* cli.py lines 99-101: the operator interrupts inside the try, that is
\* while the workflow runs: the handler logs and calls exit(0)
InterruptInWorkflow ==
    /\ main_pc \in {"body"} \cup StepNames
    /\ interrupted' = TRUE
    /\ main_pc' = "exited" /\ exit_code' = Some(ExitOnInterrupt)
    /\ events' = Append(events, <<item_no, "interrupted">>)
    /\ UNCHANGED <<calcvars, tplvars, setvars, batch, batch_arg, args_templates, moment, item_no, item, wf_templates,
                   scanning, vuescan_value, output_file_name, errors, uncaught>>

NextBatch ==
    \/ CreateBatch
    \/ FetchItem
    \/ InterruptAtPrompt
    \/ StartWorkflow
    \/ ReadSettings
    \/ OverwriteVuescanSettingsFile
    \/ LaunchVuescan
    \/ VuescanExits
    \/ MoveOutputFile
    \/ MoveLoggingFile
    \/ InterruptInWorkflow

SpecBatch == InitBatch /\ [][NextBatch]_vars

\* ------------------------------------------- the scanner settings file
\* workflow.py lines 101-124.  A parser is a sequence of sections in the order
\* they were added, a section a name and a sequence of <<key, value>> items
\* in the order they were first set; the per-job parser carries the items of
\* its [DEFAULT] section beside its sections.
MaxSections == 2

VuescanPrefix == <<"v", "u", "e", "s", "c", "a", "n", ".">>
VueScanSection == <<"V", "u", "e", "S", "c", "a", "n">>
StartsWith(s, prefix) == Len(s) >= Len(prefix) /\ SubSeq(s, 1, Len(prefix)) = prefix

\* dict: the value of a key, whether it is there, and assignment, which keeps
\* the place of a key that is already there
HasKey(items, key) == \E i \in 1..Len(items) : items[i][1] = key
ValueOf(items, key) == items[CHOOSE i \in 1..Len(items) : items[i][1] = key][2]
SetItem(items, key, value) ==
    IF HasKey(items, key)
    THEN [i \in 1..Len(items) |-> IF items[i][1] = key THEN <<key, value>> ELSE items[i]]
    ELSE Append(items, <<key, value>>)
RECURSIVE Update(_, _)
Update(items, others) ==
    IF others = <<>> THEN items
    ELSE Update(SetItem(items, Head(others)[1], Head(others)[2]), Tail(others))

\* ConfigParser.has_section, add_section and parser[section][key] = value
HasSection(parser, name) == \E k \in 1..Len(parser) : parser[k].name = name
AddSection(parser, name) == Append(parser, [name |-> name, items |-> <<>>])
SetOption(parser, name, key, value) ==
    [k \in 1..Len(parser) |->
        IF parser[k].name = name
        THEN [name |-> name, items |-> SetItem(parser[k].items, key, value)]
        ELSE parser[k]]
\* BasicInterpolation.before_set, called by the assignment: a value with a
\* percent sign that starts no interpolation is a ValueError
RejectedValue(value) == \E i \in 1..Len(value) : value[i] = "%"

\* ConfigParser.items(section), line 115: the items of [DEFAULT] updated by
\* those of the section
SectionItems(wp, k) == Update(wp.defaults, wp.sections[k].items)
\* _get_workflow_value, lines 84-85
WorkflowValue(wp, k, key, context) ==
    ReplaceTemplatesToValue(ValueOf(SectionItems(wp, k), key), context).text
\* line 112
VuescanSectionOf(section) == LET parts == Split(section, ".") IN parts[Len(parts)]

\* lines 116-117: the items of section k of the per-job file, from the i-th on
RECURSIVE CopyItems(_, _, _, _, _, _)
CopyItems(parser, vuescan_section, wp, k, i, context) ==
    LET items == SectionItems(wp, k) IN
    IF i > Len(items) THEN [err |-> "none", parser |-> parser]
    ELSE LET value == WorkflowValue(wp, k, items[i][1], context) IN
         IF RejectedValue(value) THEN [err |-> "ValueError", parser |-> parser]
         ELSE CopyItems(SetOption(parser, vuescan_section, items[i][1], value),
                        vuescan_section, wp, k, i + 1, context)

\* lines 110-117: the sections of the per-job file, from the k-th on
RECURSIVE CopySections(_, _, _, _)
CopySections(parser, wp, k, context) ==
    IF k > Len(wp.sections) THEN [err |-> "none", parser |-> parser]
    ELSE LET section == wp.sections[k].name IN
         IF StartsWith(section, VuescanPrefix) THEN
             LET vuescan_section == VuescanSectionOf(section)
                 added == IF HasSection(parser, vuescan_section) THEN parser
                          ELSE AddSection(parser, vuescan_section)
                 copied == CopyItems(added, vuescan_section, wp, k, 1, context)
             IN  IF copied.err # "none" THEN copied
                 ELSE CopySections(copied.parser, wp, k + 1, context)
         ELSE CopySections(parser, wp, k + 1, context)

\* lines 108-117: the parser that is written
VuescanSettings(wp, context) == CopySections(AddSection(<<>>, VueScanSection), wp, 1, context)

\* the per-job files of the model
SectionNames == {
    <<"m", "a", "i", "n">>,
    <<"v", "u", "e", "s", "c", "a", "n">>,
    VuescanPrefix \o <<"I">>,
    VuescanPrefix \o <<"a", ".", "I">>,
    VuescanPrefix \o <<"O">> }
SectionBodies == {
    <<>>,
    << <<"m", <<"1">>>> >>,
    << <<"n", <<"2">>>> >>,
    << <<"m", <<"2">>>>, <<"n", <<"{", "a", "}">>>> >>,
    << <<"x", <<"2">>>> >>,
    << <<"m", <<"%">>>> >> }
DefaultBodies == { <<>>, << <<"x", <<"1">>>> >>, << <<"m", <<"{", "a", "}">>>> >> }
\* ConfigParser rejects a file that names a section twice
WorkflowSections ==
    {s \in SeqsUpTo([name : SectionNames, items : SectionBodies], MaxSections) :
        \A i, j \in 1..Len(s) : s[i].name = s[j].name => i = j}
\* what an earlier run or another program left at the path of the file
PreviousSettings == << [name |-> <<"O">>, items |-> << <<"m", <<"0">>>> >>] >>
SettingsContext == Key("a") :> <<"h", "i">>

InitSettings ==
    /\ CalcIdle
    /\ TplIdle
    /\ RunIdle
    /\ workflow_parser \in [defaults : DefaultBodies, sections : WorkflowSections]
    /\ settings_file \in {NONE, Some(PreviousSettings)}
    /\ set_pc = "ready"

\* _overwrite_vuescan_settings_file returns: the file holds the new parser
WriteVuescanSettings ==
    /\ set_pc = "ready"
    /\ LET built == VuescanSettings(workflow_parser, SettingsContext) IN
          /\ built.err = "none"
          /\ settings_file' = Some(built.parser)
    /\ set_pc' = "written"
    /\ UNCHANGED <<calcvars, tplvars, runvars, workflow_parser>>

\* line 117 raises ValueError before the file is opened
SetOptionRaises ==
    /\ set_pc = "ready"
    /\ VuescanSettings(workflow_parser, SettingsContext).err # "none"
    /\ set_pc' = "raised"
    /\ UNCHANGED <<calcvars, tplvars, runvars, workflow_parser, settings_file>>

\* lines 119-123: open or write fails with OSError; the file is as it was
\* when open failed and empty when write failed
WriteVuescanSettingsFails ==
    /\ set_pc = "ready"
    /\ VuescanSettings(workflow_parser, SettingsContext).err = "none"
    /\ settings_file' \in {settings_file, Some(<<>>)}
    /\ set_pc' = "failed"
    /\ UNCHANGED <<calcvars, tplvars, runvars, workflow_parser>>

\* the workflow runs again for the next item, with the same per-job file
NextRun ==
    /\ set_pc \in {"written", "failed"}
    /\ set_pc' = "ready"
    /\ UNCHANGED <<calcvars, tplvars, runvars, workflow_parser, settings_file>>

NextSettings ==
    \/ WriteVuescanSettings
    \/ SetOptionRaises
    \/ WriteVuescanSettingsFails
    \/ NextRun

SpecSettings == InitSettings /\ [][NextSettings]_vars

\* ----------------------------------------------------------------- claims
\* what the formulas below read off the state
SortedMenu == Sorted(dpi_menu)
Returned(i) == impl = i /\ pc = "returned"
LongPhoto == Max(photo_w, photo_h)
ShortPhoto == Min(photo_w, photo_h)
LongImage == Max(image_w, image_h)
ShortImage == Min(image_w, image_h)
\* the request meets the preconditions of calculate
PositiveSides == photo_w > 0 /\ photo_h > 0 /\ image_w > 0 /\ image_h > 0
PositiveMenu == \A k \in 1..Len(dpi_menu) : dpi_menu[k] > 0
\* 1-based position of the first entry of the sorted menu above the
\* calculated value, 0 when there is none
FirstAbove ==
    LET above == {k \in 1..Len(SortedMenu) : RatLT(result.calculated, FromInt(SortedMenu[k]))}
    IN  IF above = {} THEN 0 ELSE CHOOSE k \in above : \A j \in above : k <= j
\* the calculated value lies strictly between entries k-1 and k of the sorted menu
StrictlyBetween(k) ==
    /\ k \in 2..Len(SortedMenu)
    /\ RatLT(FromInt(SortedMenu[k - 1]), result.calculated)
    /\ RatLT(result.calculated, FromInt(SortedMenu[k]))
\* neither caller bound cuts between entries k-1 and k
NoBoundInterferes(k) ==
    /\ IsNone(min_dpi) \/ Val(min_dpi) <= SortedMenu[k - 1]
    /\ IsNone(max_dpi) \/ Val(max_dpi) >= SortedMenu[k]
\* twice the signed difference of the two distances: > 0 when entry k-1 is closer
CloserSign(k) ==
    (SortedMenu[k] + SortedMenu[k - 1]) * result.calculated.d - 2 * result.calculated.n

\* C1: with strictly positive sides, the whole result of calculate
\* (calculated_dpi, recommended_dpi and options) is unchanged when photo_w and
\* photo_h are swapped and when image_w and image_h are swapped.
C1_OrientationIndependent ==
    (Returned("classes_calculator") /\ PositiveSides /\ PositiveMenu) =>
        /\ result = ClassesCalculator(photo_h, photo_w, image_w, image_h,
                                      min_dpi, max_dpi, dpi_menu, rounding)
        /\ result = ClassesCalculator(photo_w, photo_h, image_h, image_w,
                                      min_dpi, max_dpi, dpi_menu, rounding)

\* C2: calculated_dpi is the larger of the two per-axis requirements
\* image_long/(photo_long/2.54) and image_short/(photo_short/2.54), so it is
\* never below the requirement of either axis.
C2_CalculatedIsLargerAxis ==
    ((Returned("classes_calculator") \/ Returned("classes")) /\ PositiveSides) =>
        LET long_dpi == DpiOf(LongImage, LongPhoto)
            short_dpi == DpiOf(ShortImage, ShortPhoto)
        IN  /\ result.calculated \in {long_dpi, short_dpi}
            /\ RatLE(long_dpi, result.calculated)
            /\ RatLE(short_dpi, result.calculated)

C4_ExactEntryKept ==
    \A k \in 1..Len(SortedMenu) :
        ( /\ Returned("scan_batcher")
          /\ result.calculated = FromInt(SortedMenu[k])
          /\ IsNone(min_dpi) \/ Val(min_dpi) <= SortedMenu[k]
          /\ IsNone(max_dpi) \/ Val(max_dpi) >= SortedMenu[k] ) =>
            result.recommended = FromInt(SortedMenu[k])

\* C5: under ROUND_DOWN, when the first menu entry above calculated_dpi is at
\* index i of the sorted menu, the discretized value is menu[i-1] for i > 0
\* and menu[0], the smallest entry, for i = 0; never an entry from the other
\* end of the menu.
C5_RoundDownStaysBelow ==
    ( /\ Returned("scan_batcher") \/ Returned("classes_calculator")
      /\ PositiveSides /\ PositiveMenu
      /\ rounding = "mn"
      /\ FirstAbove > 0 ) =>
        result.discretized =
            FromInt(SortedMenu[IF FirstAbove > 1 THEN FirstAbove - 1 ELSE 1])

\* C6: when min_dpi is supplied and max_dpi is absent or >= min_dpi, the
\* final recommended_dpi is never below min_dpi, even when min_dpi is above
\* every menu entry.
C6_NeverBelowMinDpi ==
    ( /\ Returned("scan_batcher") \/ Returned("classes_calculator")
      /\ PositiveSides /\ PositiveMenu
      /\ ~IsNone(min_dpi)
      /\ IsNone(max_dpi) \/ Val(max_dpi) >= Val(min_dpi) ) =>
        RatLE(FromInt(Val(min_dpi)), result.recommended)

\* the effective bounds as C7 states them
EffectiveLower ==
    IF ~IsNone(min_dpi)
    THEN (IF SortedMenu # <<>> THEN Some(Max(Val(min_dpi), SortedMenu[1])) ELSE min_dpi)
    ELSE (IF SortedMenu # <<>> THEN Some(SortedMenu[1]) ELSE NONE)
EffectiveUpper ==
    IF ~IsNone(max_dpi)
    THEN (IF SortedMenu # <<>> THEN Some(Min(Val(max_dpi), SortedMenu[Len(SortedMenu)])) ELSE max_dpi)
    ELSE (IF SortedMenu # <<>> THEN Some(SortedMenu[Len(SortedMenu)]) ELSE NONE)

\* the two effective bounds do not cross
CompatibleBounds ==
    IsNone(EffectiveLower) \/ IsNone(EffectiveUpper)
        \/ Val(EffectiveLower) <= Val(EffectiveUpper)

C8_ExceedsMenuGivesLargest ==
    ( /\ Returned("scan_batcher")
      /\ SortedMenu # <<>>
      /\ \A k \in 1..Len(SortedMenu) : RatLT(FromInt(SortedMenu[k]), result.calculated) ) =>
        /\ result.discretized = FromInt(SortedMenu[Len(SortedMenu)])
        /\ \A k \in 1..Len(SortedMenu) : RatLE(FromInt(SortedMenu[k]), result.discretized)

\* C8 witness: a ROUND_DOWN call whose calculated value exceeds a menu of two
\* different entries has returned
C8_Witness ==
    /\ Returned("scan_batcher")
    /\ rounding = "mn"
    /\ Len(SortedMenu) = 2 /\ SortedMenu[1] < SortedMenu[2]
    /\ RatLT(FromInt(SortedMenu[2]), result.calculated)
    /\ result.discretized = FromInt(SortedMenu[2])

\* calculated_dpi of the request, clamped to the supplied bounds (lower
\* first, then upper), as a fraction
ClampedCalculated ==
    LET c == [n |-> ImageMinSide * CmToInch100, d |-> PhotoMinSide]
        lo == IF ~IsNone(min_dpi) /\ c.n < Val(min_dpi) * c.d
              THEN [n |-> Val(min_dpi), d |-> 1] ELSE c
    IN  IF ~IsNone(max_dpi) /\ lo.n > Val(max_dpi) * lo.d
        THEN [n |-> Val(max_dpi), d |-> 1] ELSE lo

\* C9: with an empty dpi_menu no discretization happens: recommended_dpi is
\* calculated_dpi clamped to the supplied bounds and truncated toward zero,
\* the rounding mode has no effect on the result, and options is empty.
C9_EmptyMenuNoDiscretization ==
    (Returned("scan_batcher") /\ dpi_menu = <<>>) =>
        /\ result.discretized = result.calculated
        /\ result.recommended.d = 1
        /\ result.recommended.n * ClampedCalculated.d <= ClampedCalculated.n
        /\ ClampedCalculated.n < (result.recommended.n + 1) * ClampedCalculated.d
        /\ result.options = <<>>
        /\ \A r \in Roundings :
               ScanBatcherCalculator(PhotoMinSide, ImageMinSide, min_dpi, max_dpi, dpi_menu, r)
                   = result

\* C9 witness: an empty-menu call returned a truncated, non-integer
\* calculated value
C9_Witness ==
    /\ Returned("scan_batcher")
    /\ dpi_menu = <<>>
    /\ result.calculated.d > 1
    /\ IsNone(min_dpi) /\ IsNone(max_dpi)
    /\ RatLT(result.recommended, result.calculated)

\* the request carries both bounds, in the wrong order, and is otherwise valid
InvalidBoundsRequest ==
    /\ ~IsNone(min_dpi) /\ ~IsNone(max_dpi) /\ Val(min_dpi) > Val(max_dpi)
    /\ PhotoMinSide > 0 /\ ImageMinSide > 0
    /\ rounding \in Roundings

\* C10: a call with both bounds supplied and min_dpi > max_dpi fails with
\* the invalid-bounds error and returns no result; the failure is raised
\* before calculated_dpi is computed or the menu is examined, whatever the
\* menu and the rounding mode.
C10_InvalidBoundsFailFirst ==
    (impl = "scan_batcher" /\ InvalidBoundsRequest) =>
        /\ pc = "raised"
        /\ result = Failure("bounds")

\* C10 witness: the invalid-bounds error was raised for a request whose menu
\* also holds a non-positive entry
C10_Witness ==
    /\ impl = "scan_batcher"
    /\ InvalidBoundsRequest
    /\ \E k \in 1..Len(dpi_menu) : dpi_menu[k] <= 0
    /\ pc = "raised"
    /\ result.err = "bounds"

\* the menu of the request holds an entry that is zero or negative
HasNonPositiveEntry == \E k \in 1..Len(dpi_menu) : dpi_menu[k] <= 0
\* the scan_batcher call has finished, by return or by raise
BatcherFinished == impl = "scan_batcher" /\ pc \in {"returned", "raised"}
\* the request passes every validation of lines 52-61
OtherwiseValid == BatcherValidate(PhotoMinSide, ImageMinSide, min_dpi, max_dpi, rounding) = "none"

\* C11: a scan_batcher call that passes the validations of the sides, the
\* rounding mode and the bounds, and whose menu holds an entry that is zero
\* or negative, raises the invalid-menu-entry error, wherever the entry
\* stands in the menu and whatever the calculated value and the rounding mode
C11_NonPositiveEntryFails ==
    (BatcherFinished /\ OtherwiseValid /\ HasNonPositiveEntry)
        => (pc = "raised" /\ result = Failure("menu"))

\* a negative entry in last position, a calculated value of 300 that an
\* earlier positive entry already exceeds, and the call raised
C11_Witness ==
    /\ BatcherFinished /\ OtherwiseValid
    /\ dpi_menu = <<600, -150>>
    /\ PhotoMinSide = 254 /\ ImageMinSide = 300
    /\ pc = "raised" /\ result = Failure("menu")

\* ------------------------------------------------ claims on the resolver
\* the call on tpl_string has returned
TplDone == tpl_pc = "done"
\* the placeholders finditer finds in tpl_string, the text of the k-th one,
\* its fields, and what _convert_value makes of it on its own
TplMatches == FindIter(tpl_string, 1)
TplSpan(k) == SubSeq(tpl_string, TplMatches[k].start, TplMatches[k].end)
TplFields(k) == Split(SubSeq(TplSpan(k), 2, Len(TplSpan(k)) - 1), ":")
TplConverted(k) == ConvertValue(SubSeq(TplSpan(k), 2, Len(TplSpan(k)) - 1), templates)
\* tpl_string from position pos on, with the k-th and later placeholders each
\* replaced on its own span by its conversion, or left when it has none
RECURSIVE Spanwise(_, _)
Spanwise(k, pos) ==
    IF k > Len(TplMatches) THEN SubSeq(tpl_string, pos, Len(tpl_string))
    ELSE SubSeq(tpl_string, pos, TplMatches[k].start - 1)
         \o (IF TplConverted(k).err = "none" THEN TplConverted(k).text ELSE TplSpan(k))
         \o Spanwise(k + 1, TplMatches[k].end + 1)
\* the placeholders of tpl_string that have no conversion
Failing == {k \in 1..Len(TplMatches) : TplConverted(k).err # "none"}
UnknownKey(k) == TplFields(k)[1] \notin DOMAIN templates
\* the width field of the k-th placeholder is there and is not a string of digits
BadWidth(k) ==
    /\ ~UnknownKey(k)
    /\ Len(TplFields(k)) > 1
    /\ \/ TplFields(k)[2] = <<>>
       \/ \E i \in 1..Len(TplFields(k)[2]) : ~IsDigit(TplFields(k)[2][i])

\* C12: when a string holds a placeholder whose key is not in the context,
\* the call still returns, that placeholder stands verbatim in the output,
\* one diagnostic is logged for each placeholder that failed, and every
\* placeholder with a conversion is replaced by it, before or after the
\* failing one
C12_UnknownKeyLeftOthersReplaced ==
    (TplDone /\ \E k \in 1..Len(TplMatches) : UnknownKey(k))
        => (tpl_result = Spanwise(1, 1) /\ Len(tpl_log) = Cardinality(Failing))

\* C13: the output is the input with each matched placeholder replaced on
\* its own span only: text that came in as a substituted value, and text of
\* other placeholders, is not touched by the handling of a later placeholder
C13_OnlyMatchedSpans == TplDone => tpl_result = Spanwise(1, 1)

\* C14: when a string holds a placeholder with a known key whose width is
\* there but is empty, non-numeric or negative, that placeholder has no
\* conversion and stands verbatim in the output, a diagnostic is logged for
\* each placeholder that failed, and the other placeholders are replaced
C14_BadWidthLeftOthersReplaced ==
    (TplDone /\ \E k \in 1..Len(TplMatches) : BadWidth(k))
        => /\ \A k \in 1..Len(TplMatches) : BadWidth(k) => TplConverted(k).err # "none"
           /\ tpl_result = Spanwise(1, 1)
           /\ Len(tpl_log) = Cardinality(Failing)

\* tpl_string is one placeholder and nothing else, and it has a conversion
OnePlaceholder ==
    /\ Len(TplMatches) = 1
    /\ TplMatches[1].start = 1 /\ TplMatches[1].end = Len(tpl_string)
    /\ TplConverted(1).err = "none"
\* the fields of that placeholder as the claim names them
TheValue == templates[TplFields(1)[1]]
TheWidth == IF Len(TplFields(1)) > 1 THEN DigitsValue(TplFields(1)[2]) ELSE 0
TheAlign == IF Len(TplFields(1)) > 2 THEN TplFields(1)[3] ELSE <<>>
ThePad == IF Len(TplFields(1)) > 3 /\ TplFields(1)[4] # <<>> THEN TplFields(1)[4][1] ELSE " "

\* C15: the replacement of a resolvable placeholder {key:w:a:p} has length
\* max(w, len(value)) and is the whole value with pad characters around it:
\* all to the left for '>', split over both sides for '^', all to the right
\* otherwise; the pad character is p, a space when p is absent
C15_PaddedToWidth ==
    (TplDone /\ OnePlaceholder)
        => /\ Len(tpl_result) = Max(TheWidth, Len(TheValue))
           /\ \E l \in 0..Len(tpl_result) :
                 LET r == Len(tpl_result) - Len(TheValue) - l IN
                 /\ r >= 0
                 /\ tpl_result = Repeat(ThePad, l) \o TheValue \o Repeat(ThePad, r)
                 /\ TheAlign = <<">">> => r = 0
                 /\ TheAlign = <<"^">> => (l = r \/ l + 1 = r \/ l = r + 1)
                 /\ TheAlign \notin {<<">">>, <<"^">>} => l = 0

\* a value of two characters centred in a width of five with pad "_", and a
\* value of six characters that a width of five leaves whole
C15_Witness ==
    /\ TplDone /\ OnePlaceholder
    /\ \/ /\ tpl_string = <<"{", "a", ":", "5", ":", "^", ":", "_", "}">>
          /\ tpl_result = <<"_", "h", "i", "_", "_">>
       \/ /\ tpl_string = <<"{", "a", ":", "5", ":", ">", ":", "_", "}">>
          /\ tpl_result = <<"h", "e", "l", "l", "o", "!">>

\* tpl_string has no opening brace with a closing brace two or more places on
NoPlaceholder ==
    ~ \E i, j \in 1..Len(tpl_string) : i + 2 <= j /\ tpl_string[i] = "{" /\ tpl_string[j] = "}"

\* C16: a string without a placeholder comes back unchanged and nothing is
\* logged; this holds in particular when the string is an earlier output
\* of the resolver that has no braces left
C16_NoPlaceholderUnchanged ==
    (TplDone /\ NoPlaceholder) => (tpl_result = tpl_string /\ tpl_log = <<>>)

\* the second call, on the output "his" of the first
C16_Witness ==
    /\ TplDone /\ tpl_round = 2
    /\ tpl_string = <<"h", "i", "s">>
    /\ tpl_result = tpl_string

\* ----------------------------------------------- claims on the batch run
\* C17: no error raised while an item is handled aborts the run: when the
\* calculator rejects the request of an item (a side entered as zero or
\* less, or min_dpi above max_dpi) the error is reported and main stands at
\* the for statement again, as it does after an exception of the workflow;
\* no ValueError leaves main once the batch is created
C17_ItemErrorsDoNotAbort ==
    /\ batch # "none" => uncaught # "ValueError"
    /\ (impl = "scan_batcher" /\ pc = "raised") => (main_pc = "next" /\ errors > 0)

\* C18: whenever the operator has interrupted the batch loop, at a prompt of
\* the next item or while the workflow runs, the driver caught the interrupt
\* and the process ended with exit code 0
C18_InterruptExitsZero ==
    interrupted => (main_pc = "exited" /\ uncaught = "none" /\ exit_code = Some(0))

\* the steps of one item as the claim orders them; the event run_vuescan is
\* the return of run(), that is the exit of the scanner process
ClaimedOrder ==
    <<"start", "read_settings", "overwrite_vuescan_settings_file", "vuescan_launched",
      "run_vuescan", "move_output_file", "move_logging_file">>
Rank(e) == CHOOSE k \in 1..Len(ClaimedOrder) : ClaimedOrder[k] = e
IsStep(e) == \E k \in 1..Len(ClaimedOrder) : ClaimedOrder[k] = e

\* C19: within one item every step comes right after the step the claim
\* puts before it: settings read, settings file written, scanner launched,
\* scanner exited, scanned file moved, log moved; a file is moved only after
\* the scanner of the same item has exited, the workflow stands still while
\* the scanner runs, and an item starts only after the item before it has
\* finished or failed
C19_StepsInOrder ==
    /\ \A i \in 1..Len(events) :
          (IsStep(events[i][2]) /\ Rank(events[i][2]) > 1)
              => (i > 1 /\ events[i - 1] = <<events[i][1], ClaimedOrder[Rank(events[i][2]) - 1]>>)
    /\ \A i \in 1..Len(events) :
          events[i][2] \in {"move_output_file", "move_logging_file"}
              => \E j \in 1..(i - 1) : events[j] = <<events[i][1], "run_vuescan">>
    /\ \A i \in 2..Len(events) :
          events[i][2] = "start"
              => /\ events[i - 1][1] = events[i][1] - 1
                 /\ events[i - 1][2] \in {"move_logging_file", "failed"}
    /\ scanning => main_pc \in {"run_vuescan", "exited"}

\* the first item ran through all steps and the second one has moved its file
C19_Witness ==
    /\ \E i \in 1..Len(events) : events[i] = <<1, "move_logging_file">>
    /\ \E i \in 1..Len(events) : events[i] = <<2, "move_output_file">>

\* the placeholder of the capture year, and whether a text holds it
YearPlaceholder == <<"{", "digitization_year", "}">>
Contains(text, sub) ==
    \E i \in 1..(Len(text) - Len(sub) + 1) : SubSeq(text, i, i + Len(sub) - 1) = sub
\* the scanner of the item in hand has exited
ScanExited == \E i \in 1..Len(events) : events[i] = <<item_no, "run_vuescan">>

\* C20 as stated: while a workflow runs, the capture year is in the context
\* only after the scanner has exited and the scanned file was found; every
\* scanner-side value resolved so far still holds the placeholder of the
\* year, and every final file name resolved so far has it replaced
C20_DateOnlyInFinalName ==
    /\ (main_pc \in StepNames /\ Key("digitization_year") \in DOMAIN wf_templates)
           => (ScanExited /\ ~IsNone(output_file_name))
    /\ ~IsNone(vuescan_value) => Contains(Val(vuescan_value), YearPlaceholder)
    /\ ~IsNone(output_file_name) => ~Contains(Val(output_file_name), YearPlaceholder)

\* C20 (amended): a capture-date field that the caller did not supply is in
\* the context of a running workflow only after the scanner has exited, the
\* scanned file was found and a capture date was read from it; a
\* scanner-side value resolved without a caller-supplied year still holds
\* the placeholder; and when a capture date was read, the final file name
\* has the placeholder replaced by the year of that date
C20_DateAfterScanWhenRead ==
    /\ \A name \in ExifTemplateNames :
          (/\ main_pc \in StepNames
           /\ Key(name) \in DOMAIN wf_templates
           /\ Key(name) \notin DOMAIN args_templates)
              => (ScanExited /\ ~IsNone(output_file_name) /\ ~IsNone(moment))
    /\ (~IsNone(vuescan_value) /\ Key("digitization_year") \notin DOMAIN args_templates)
           => Contains(Val(vuescan_value), YearPlaceholder)
    /\ (~IsNone(output_file_name) /\ ~IsNone(moment))
           => /\ ~Contains(Val(output_file_name), YearPlaceholder)
              /\ SubSeq(Val(output_file_name), 1, 4) = PyStr(Moment.digitization_year)

\* a dated file was found: the scanner-side value keeps the placeholder, the
\* final name starts with the year read from the file
C20_Witness ==
    /\ ~IsNone(moment) /\ ~IsNone(vuescan_value) /\ ~IsNone(output_file_name)
    /\ Val(vuescan_value) = <<"u", "_", "{", "digitization_year", "}">>
    /\ SubSeq(Val(output_file_name), 1, 4) = <<"2", "0", "2", "4">>

\* C21: when a step of an item fails with a workflow error, no later event
\* of that item follows: nothing more is written, launched or moved for it
\* and its last step (after which completion is logged) never returns; the
\* scanner is not running; and the next event, if any, is the start of the
\* next item (or the operator's interrupt before it started)
C21_FailureEndsItem ==
    /\ \A i \in 1..Len(events) :
          events[i][2] = "failed"
              => /\ \A j \in (i + 1)..Len(events) : events[j][1] # events[i][1]
                 /\ \A j \in 1..Len(events) : events[j] # <<events[i][1], "move_logging_file">>
                 /\ i < Len(events)
                        => /\ events[i + 1][1] = events[i][1] + 1
                           /\ events[i + 1][2] \in {"start", "interrupted"}
    /\ (events # <<>> /\ events[Len(events)][2] = "failed")
           => (~scanning /\ main_pc \notin StepNames)

\* the scanner executable of the first item was missing (the failure comes
\* right after the settings file was written) and the second item has read
\* its settings
C21_Witness ==
    /\ Len(events) >= 6
    /\ events[3] = <<1, "overwrite_vuescan_settings_file">>
    /\ events[4] = <<1, "failed">>
    /\ events[5] = <<2, "start">>
    /\ events[6] = <<2, "read_settings">>

\* how often dpi d occurs in a menu / among the options
TimesInMenu(d) == Cardinality({k \in 1..Len(dpi_menu) : dpi_menu[k] = d})
TimesInOptions(d) == Cardinality({k \in 1..Len(result.options) : result.options[k][1] = d})
\* one option per menu entry, ascending by dpi
OptionsFollowMenu ==
    /\ Len(result.options) = Len(dpi_menu)
    /\ \A d \in MenuEntries : TimesInOptions(d) = TimesInMenu(d)
    /\ \A k \in 1..(Len(result.options) - 1) :
           result.options[k][1] <= result.options[k + 1][1]
\* every option holds, after its dpi, the pixel extents of the given photo
\* sides, and no extent decreases along the sequence
OptionsExtents(sides) ==
    /\ \A k \in 1..Len(result.options) :
           /\ Len(result.options[k]) = 1 + Len(sides)
           /\ \A s \in 1..Len(sides) :
                  result.options[k][1 + s] = PixelsOf(result.options[k][1], sides[s])
    /\ \A k \in 1..(Len(result.options) - 1) : \A s \in 1..Len(sides) :
           result.options[k][1 + s] <= result.options[k + 1][1 + s]

\* C22: the options returned by calculate hold exactly one pair per entry of
\* dpi_menu (duplicates included), ascending by dpi whatever the order of the
\* menu, each pair being a dpi and the integer part of dpi * photo side / 2.54,
\* so that the pixel extents never decrease along the sequence.
C22_OnePairPerEntry ==
    /\ (Returned("scan_batcher") /\ PositiveMenu)
           => OptionsFollowMenu /\ OptionsExtents(<<PhotoMinSide>>)
    /\ (Returned("classes_calculator") /\ PositiveSides /\ PositiveMenu)
           => /\ OptionsFollowMenu
              /\ \E side \in {photo_w, photo_h} : OptionsExtents(<<side>>)

\* what calculate returns as recommended_dpi for the request of the state
\* under rounding mode r
RecommendedUnder(r) ==
    ScanBatcherCalculator(PhotoMinSide, ImageMinSide, min_dpi, max_dpi, dpi_menu, r).recommended
NoBounds == IsNone(min_dpi) /\ IsNone(max_dpi)
InMenu(v) == \E k \in 1..Len(dpi_menu) : v = FromInt(dpi_menu[k])

\* C27: for a fixed valid request with a positive menu the recommended_dpi of
\* the three rounding modes is ordered, 'mn' <= 'nr' <= 'mx'; with a non-empty
\* menu and no bounds, the 'mx' result is >= calculated_dpi whenever some menu
\* entry is >= calculated_dpi, and the 'mn' result is <= calculated_dpi
\* whenever calculated_dpi is >= the smallest menu entry.
C27_RoundingModesOrdered ==
    Returned("scan_batcher") =>
        /\ result.recommended = RecommendedUnder(rounding)
        /\ RatLE(RecommendedUnder("mn"), RecommendedUnder("nr"))
        /\ RatLE(RecommendedUnder("nr"), RecommendedUnder("mx"))
        /\ (dpi_menu # <<>> /\ NoBounds) =>
               /\ (\E k \in 1..Len(dpi_menu) : RatLE(result.calculated, FromInt(dpi_menu[k])))
                      => RatLE(result.calculated, RecommendedUnder("mx"))
               /\ RatLE(FromInt(SortedMenu[1]), result.calculated)
                      => RatLE(RecommendedUnder("mn"), result.calculated)

\* a returned 'nr' request without bounds whose calculated_dpi lies strictly
\* between two entries, so that 'mn' and 'mx' give different results
C27_Witness ==
    /\ Returned("scan_batcher") /\ rounding = "nr" /\ NoBounds
    /\ StrictlyBetween(2)
    /\ RatLT(RecommendedUnder("mn"), RecommendedUnder("mx"))
    /\ RatLT(RecommendedUnder("mn"), result.calculated)
    /\ RatLT(result.calculated, RecommendedUnder("mx"))

\* C28: with a non-empty menu of positive entries and no bound supplied,
\* recommended_dpi is a member of dpi_menu for every calculated_dpi and
\* rounding mode; it is a non-member only when it is a supplied bound.
C28_RecommendedOnMenu ==
    (Returned("scan_batcher") /\ dpi_menu # <<>>) =>
        \/ InMenu(result.recommended)
        \/ ~IsNone(min_dpi) /\ result.recommended = FromInt(Val(min_dpi))
        \/ ~IsNone(max_dpi) /\ result.recommended = FromInt(Val(max_dpi))

\* a returned request without bounds whose calculated_dpi is off the menu
\* and below its first entry
C28_Witness ==
    /\ Returned("scan_batcher") /\ NoBounds /\ Len(dpi_menu) = 2
    /\ ~InMenu(result.calculated)
    /\ RatLT(result.calculated, FromInt(SortedMenu[1]))
    /\ result.recommended = FromInt(SortedMenu[1])

\* the file that was written, and the sections of the per-job file
WrittenSettings == Val(settings_file)
JobSections == workflow_parser.sections
Prefixed(k) == StartsWith(JobSections[k].name, VuescanPrefix)
\* the positions of the prefixed per-job sections that map to section name x
MappedTo(x) == {k \in 1..Len(JobSections) : Prefixed(k) /\ VuescanSectionOf(JobSections[k].name) = x}
\* the last of these sections that has the key itself
LastWith(x, key) ==
    LET with == {k \in MappedTo(x) : HasKey(JobSections[k].items, key)}
    IN  CHOOSE k \in with : \A j \in with : j <= k
Resolved(value) == ReplaceTemplatesToValue(value, SettingsContext).text
\* section x of the written file holds the key with the value
Holds(x, key, value) ==
    \E s \in 1..Len(WrittenSettings) :
        /\ WrittenSettings[s].name = x
        /\ \E i \in 1..Len(WrittenSettings[s].items) :
               WrittenSettings[s].items[i] = <<key, value>>
\* every key of every prefixed section is in the section it maps to, with
\* the resolved value of the last prefixed section that has the key
PrefixedKeysWritten ==
    \A k \in 1..Len(JobSections) : Prefixed(k) =>
        LET x == VuescanSectionOf(JobSections[k].name) IN
        /\ HasSection(WrittenSettings, x)
        /\ \A i \in 1..Len(JobSections[k].items) :
               LET key == JobSections[k].items[i][1] IN
               Holds(x, key, Resolved(ValueOf(JobSections[LastWith(x, key)].items, key)))
\* nothing else is in the file: every section is VueScan or mapped to, no
\* section and no key comes twice, and every key is a key of a prefixed
\* section that maps to its section
NothingElseWritten ==
    /\ \A s \in 1..Len(WrittenSettings) :
           LET x == WrittenSettings[s].name IN
           /\ x = VueScanSection \/ MappedTo(x) # {}
           /\ \A t \in 1..Len(WrittenSettings) : WrittenSettings[t].name = x => t = s
           /\ \A i \in 1..Len(WrittenSettings[s].items) :
                  LET key == WrittenSettings[s].items[i][1] IN
                  /\ \E k \in MappedTo(x) : HasKey(JobSections[k].items, key)
                  /\ \A j \in 1..Len(WrittenSettings[s].items) :
                         WrittenSettings[s].items[j][1] = key => j = i

\* C23: the scanner settings file the workflow writes is built from scratch:
\* for every per-job section 'vuescan.<X>' it has a section <X> holding each
\* key of that section with its template-resolved value, keys of per-job
\* sections without the prefix never appear in it, and when two prefixed
\* sections map to the same <X> the keys of both are there, the later section
\* winning on a shared key.
C23_OnlyPrefixedSectionsMerged ==
    set_pc = "written" => PrefixedKeysWritten /\ NothingElseWritten

\* the call of src/classes/workflow.py on tpl_string has returned
ClassesDone == tpl_pc = "converted"
\* every placeholder of tpl_string has a conversion, and the current
\* revision resolves the string span by span
AllResolvable ==
    /\ \A k \in 1..Len(TplMatches) : TplConverted(k).err = "none"
    /\ ReplaceTemplatesToValue(tpl_string, templates).text = Spanwise(1, 1)

\* C24: _convert_template_to_value of src/classes/workflow.py replaces every
\* resolvable placeholder of a string that holds two or more placeholders,
\* as it does for a string with a single one: with both keys in the context,
\* {a}-{b} becomes the value of a, a dash, and the value of b.
C24_EveryPlaceholderReplaced ==
    (ClassesDone /\ Len(TplMatches) >= 2 /\ AllResolvable)
        => tpl_result = Spanwise(1, 1)

\* create_batch has returned or raised
BatchSettled == main_pc # "create" /\ batch_arg # <<>>
\* the classes whose name is the type name given, letter case apart
Named == {c \in {"scan", "calculate", "process"} : Lower(ClassName[c]) = Lower(batch_arg[1])}
\* create_batch raised the error and main ended
CreateRaised(e) == batch = "none" /\ main_pc = "aborted" /\ uncaught = e

\* C25: create_batch returns an instance of the matching subclass for every
\* type name that equals, letter case apart, the name of Scan, Calculate or
\* Process, handing it the recorder, the DPI bounds, the DPI list, the
\* rounding mode and the extra batch arguments; a name that matches no
\* subclass raises ValueError, and an empty batch list gives a Scan.
C25_MatchingSubclassCreated ==
    /\ BatchSettled => /\ \A c \in Named : batch = c
                       /\ (Named = {}) => CreateRaised("ValueError")
    /\ (main_pc # "create" /\ batch_arg = <<>>) => batch = "scan"

\* how many workflow runs have started
Starts == Cardinality({i \in 1..Len(events) : events[i][2] = "start"})

\* C26: a Calculate batch performs exactly one calculation and then ends the
\* iteration without yielding an item, so that no workflow step is ever
\* executed in this mode; a Scan batch never ends by itself and yields one
\* item {scan_dpi: value} per calculation, each handed to one workflow run.
C26_CalculateOnceScanForever ==
    /\ batch = "calculate" =>
           /\ events = <<>> /\ item_no = 0 /\ item = <<>>
           /\ main_pc \notin StepNames \cup {"body"}
           /\ pc = "returned" <=> main_pc = "finished"
           /\ pc # "idle" => main_pc \in {"finished", "aborted"}
    /\ batch = "scan" =>
           /\ main_pc # "finished"
           /\ pc = "returned" =>
                  /\ item_no >= 1
                  /\ \E index \in {0, 1} :
                         item = Key("scan_dpi") :> PyStr(SelectedDpi(result, index))
           /\ Starts \in {item_no - 1, item_no}
           /\ main_pc \in StepNames => Starts = item_no

\* a Calculate batch whose one calculation returned, and main at its end
C26_Witness ==
    /\ batch = "calculate" /\ main_pc = "finished"
    /\ pc = "returned" /\ result.err = "none"
    /\ exit_code = Some(ExitAtEnd)

\* what the workflow of the item in hand was called with, user_name apart
FreshContext == MergedTemplates(args_templates, item)
DateKeys == {Key(name) : name \in ExifTemplateNames}

\* C29: every item runs the workflow with a context of its own, the
\* templates of the command line overridden by the values of the item; the
\* capture-date fields read for one item are never in the context of a later
\* one, so that the final name of a later file without a capture date keeps
\* its digitization placeholders.
C29_FreshContextPerItem ==
    main_pc \in StepNames =>
        /\ \A k \in DOMAIN item : wf_templates[k] = item[k]
        /\ \A k \in DOMAIN args_templates \ (DOMAIN item \cup {Key("user_name")}) :
               wf_templates[k] = args_templates[k] \/ (k \in DateKeys /\ ~IsNone(moment))
        /\ \A k \in DOMAIN wf_templates :
               \/ k \in DOMAIN item \cup DOMAIN args_templates \cup {Key("user_name")}
               \/ k \in DateKeys /\ ~IsNone(moment)
        /\ (/\ ~IsNone(output_file_name) /\ IsNone(moment)
            /\ Key("digitization_year") \notin DOMAIN args_templates)
               => Contains(Val(output_file_name), YearPlaceholder)

\* the second item runs with a scan_dpi of its own over the one of the
\* command line, its file carried no capture date, and its final name keeps
\* the placeholder of the year
C29_Witness ==
    /\ item_no = 2 /\ main_pc = "move_logging_file"
    /\ \E i \in 1..Len(events) : events[i] = <<1, "move_output_file">>
    /\ Key("scan_dpi") \in DOMAIN args_templates
    /\ wf_templates[Key("scan_dpi")] = item[Key("scan_dpi")]
    /\ wf_templates[Key("scan_dpi")] # args_templates[Key("scan_dpi")]
    /\ IsNone(moment) /\ ~IsNone(output_file_name)
    /\ Contains(Val(output_file_name), YearPlaceholder)

\* C30: from the start to the end of a workflow run user_name is the name of
\* the system user: a user_name of the caller is overwritten before any
\* value of the configuration is resolved, and no later step changes it.
C30_UserNameIsSystemUser ==
    /\ main_pc \in StepNames => wf_templates[Key("user_name")] = UserName
    /\ ~IsNone(vuescan_value) =>
           SubSeq(Val(vuescan_value), 1, Len(UserName) + 1) = UserName \o <<"_">>

\* the caller passed a user_name of its own, the workflow is at its last
\* step, and the scanner-side value was resolved with the system user's name
C30_Witness ==
    /\ Key("user_name") \in DOMAIN args_templates
    /\ args_templates[Key("user_name")] # UserName
    /\ main_pc = "move_logging_file"
    /\ wf_templates[Key("user_name")] = UserName
    /\ ~IsNone(vuescan_value) /\ Val(vuescan_value)[1] = "u"

====
